---- MODULE Spec2Model ----
(***************************************************************************)
(* State-machine model of the company-profile scraper client.              *)
(*                                                                         *)
(* Two builds of the React component App are modelled: the plain client    *)
(* (frontend/src/App.js) and the session-capable client (unnamed/part_000).*)
(* The variable `version` says which build runs; it never changes.         *)
(*                                                                         *)
(* React state hooks are the variables; every event handler, every promise *)
(* continuation and the interval callback is one action.  A handler reads  *)
(* the state through the closure of the render in which it was created, so *)
(* each asynchronous task carries the values it captured at the click.     *)
(*                                                                         *)
(* The HTTP backend is not part of the sources.  Its session store is      *)
(* modelled from the specification (Session Aggregator): start() creates a *)
(* fresh session, add() appends one profile, count() is the length.        *)
(*                                                                         *)
(* React commits the state a handler or continuation has set before the    *)
(* next event is delivered, so each action ends with the render it causes. *)
(* The GET of the API root sent once on mount has its rejection swallowed  *)
(* and its answer ignored; it touches no state and is left out.            *)
(***************************************************************************)
EXTENDS Integers, Sequences, FiniteSets, Bags, TLC

\* ------------------------------------------------------------------ bounds
\* asynchronous tasks (runs and Start Session clicks) in flight at once
MaxTasks == 2
\* profiles the server accepts over all sessions
MaxProfiles == 1
\* interval ticks delivered to one run under Spec
MaxTicks == 1
\* interval ticks delivered to one run under SpecProgress
LongTicks == 62

\* --------------------------------------------------------- JavaScript values
\* null and undefined, kept apart from every string the program handles
JsNull == "<null>"
JsUndefined == "<undefined>"
\* an empty optional (null state) and a present one
None == << >>
Some(x) == << x >>
\* sessionId's initial value "" (falsy), session ids are the positive numbers
NoSession == 0

Falsy(v) == v \in {JsNull, JsUndefined, ""}

\* ------------------------------------------------------------ input domains
Versions == {"plain", "session"}
Methods == {"url", "name", "bulk"}
Urls == {"", "https://acme.test"}
Companies == {"", "Acme"}
Geos == {"", "US"}
Modes == {"realtime", "deep"}
Files == {None, Some("rows.csv")}
JobIds == {"j1"}
ErrDetails == {JsUndefined, "SessionNotFound"}
ErrMessages == {"Network Error"}

VARIABLES
    version,        \* which build of App is running
    method, url, company, geo, mode, file,      \* form state
    loading, data, job, bulkInfo, error,        \* run state
    sessionId, addToSession, sessionCount,      \* session state (part_000)
    ticks, p, idx,  \* ProgressInline: interval ticks since mount, percent, step
    tasks,          \* bag of the async functions suspended at an await
    sessions,       \* backend: sessions[i] is the profile list of session i
    ended           \* record of the run that ended in the last step, if one did

formVars == <<method, url, company, geo, mode, file>>
runVars == <<loading, data, job, bulkInfo, error>>
sessVars == <<sessionId, addToSession, sessionCount>>
progVars == <<ticks, p, idx>>
vars == <<version, formVars, runVars, sessVars, progVars, tasks, sessions, ended>>

\* ------------------------------------------------------------ pure functions
Min(a, b) == IF a < b THEN a ELSE b

\* obj[k] of a JavaScript object: undefined when the key is absent
Get(obj, k) == IF k \in DOMAIN obj THEN obj[k] ELSE JsUndefined

\* the fixed field order of the result table
order ==
    << "Company Name", "Website", "Industry", "Description", "Services",
       "Address", "Country", "State", "City", "Postal Code", "Phone", "Email",
       "Social Media Links", "Founders/Key People", "Verification Status" >>

\* variant of Pairs that lists the keys the object has, in table order
PairsOfOwnKeys(d) ==
    IF d = None THEN << >>
    ELSE LET own == SelectSeq(order, LAMBDA k : k \in DOMAIN d[1])
         IN [i \in 1..Len(own) |-> [k |-> own[i], v |-> d[1][own[i]]]]

\* useMemo pairs: [] for a falsy data, else order.map(k => ({k, v: data[k]}))
Pairs(d) ==
    IF d = None THEN << >>
    ELSE [i \in 1..Len(order) |-> [k |-> order[i], v |-> Get(d[1], order[i])]]

\* the placeholder of an empty cell, the em dash U+2014 (written in ASCII here)
Placeholder == "--"
\* the value cell of <Pair>: {v || Placeholder}
PairCell(v) == IF Falsy(v) THEN Placeholder ELSE v

\* the rows of the result table: pairs.map(({k,v}) => <Pair k v/>)
TableRows(d) == [i \in 1..Len(Pairs(d)) |-> <<Pairs(d)[i].k, PairCell(Pairs(d)[i].v)>>]

\* step labels of the progress card, per build
steps ==
    [v \in Versions |->
        << "Finding website", "Crawling pages",
           IF v = "plain" THEN "Extracting with AI" ELSE "Extracting structured data",
           "Exporting Excel" >>]
StepsLength == 4

\* the interval fires every 250 ms and adds 0.25 to sec: four ticks a second
TicksPerSecond == 4
\* ratio = Math.min(1, sec/15)
FullSeconds == 15
\* ratio after t ticks as the fraction RatioNum(t) / RatioDen.  The doubles
\* the code computes (sec/15, ratio*100, ratio*4) floor to the same integers
\* as this exact fraction at every tick, the multiples of 0.6 s included.
RatioDen == FullSeconds * TicksPerSecond
RatioNum(t) == Min(RatioDen, t)
\* variant of PercentAt that jumps to 100 once the backend has answered a
\* request of the run
PercentByAnswers(t) ==
    IF \E x \in DOMAIN tasks : x.sent > 1 THEN 100
    ELSE (RatioNum(t) * 100) \div RatioDen

\* variant of StepAt without the clamp to the last step
StepAtUnclamped(t) == (RatioNum(t) * StepsLength) \div RatioDen

\* Math.floor(ratio*100)
PercentAt(t) == (RatioNum(t) * 100) \div RatioDen
\* Math.min(steps.length-1, Math.floor(ratio*steps.length))
StepAt(t) == Min(StepsLength - 1, (RatioNum(t) * StepsLength) \div RatioDen)

\* variant of ErrorMsg without the fallback to e.message
ErrorMsgDetailOnly(detail, message) == detail

\* e?.response?.data?.detail || e.message
ErrorMsg(detail, message) == IF Falsy(detail) THEN message ELSE detail

\* res.data.count || 0
CountOrZero(c) == IF c = 0 THEN 0 ELSE c

\* variant of RunDisabled that looks at loading alone
RunDisabledWhileLoadingOnly == loading

\* variant of RunDisabled that leaves out loading
RunDisabledWhileIdleOnly ==
    \/ method = "url" /\ Falsy(url)
    \/ method = "name" /\ Falsy(company)
    \/ method = "bulk" /\ file = None

\* disabled attribute of the Run button
RunDisabled ==
    \/ loading
    \/ method = "url" /\ Falsy(url)
    \/ method = "name" /\ Falsy(company)
    \/ method = "bulk" /\ file = None

\* the Start Session button is rendered
StartSessionShown ==
    version = "session" /\ sessionId = NoSession /\ addToSession

\* ------------------------------------------------------------------ requests
ReqScrapeUrl(c) == [ep |-> "/scrape/url", url |-> c.url, mode |-> c.mode]
ReqScrapeName(c) ==
    [ep |-> "/scrape/name", company_name |-> c.company, geography |-> c.geo,
     mode |-> c.mode]
ReqBulkUpload(c) == [ep |-> "/bulk/upload", file |-> c.file, mode |-> c.mode]
ReqSessionStart == [ep |-> "/session/start"]
ReqSessionAddUrl(sid, c) ==
    [ep |-> "/session/add/url", session_id |-> sid, url |-> c.url, mode |-> c.mode]
ReqSessionAddName(sid, c) ==
    [ep |-> "/session/add/name", session_id |-> sid, company_name |-> c.company,
     geography |-> c.geo, mode |-> c.mode]
ReqSessionGet(sid) == [ep |-> "/session/{id}", session_id |-> sid]

SessionEps == {"/session/start", "/session/add/url", "/session/add/name", "/session/{id}"}
AddEps == {"/session/add/url", "/session/add/name"}

\* ------------------------------------------------------------------- backend
\* profile objects the backend may return: any subset of these keys (one of
\* the table, one the table does not know), each null or set
ProfileKeys == {"Company Name", "Revenue"}
FieldValues == {JsNull, "Acme Ltd"}
Profiles == UNION {[S -> FieldValues] : S \in SUBSET ProfileKeys}

\* {job_id, data} of a finished single job
ScrapeResponses == [job_id : JobIds, data : Profiles]
\* {job_id, rows, errors} of a finished bulk job
BulkResponses ==
    {[job_id |-> j, rows |-> 2, errors |-> e] :
        j \in JobIds, e \in {<< >>, << "RowInputInvalid" >>}}

RECURSIVE SumLen(_)
SumLen(ss) == IF ss = << >> THEN 0 ELSE Len(ss[1]) + SumLen(Tail(ss))
\* profiles held over all sessions
TotalProfiles == SumLen(sessions)

\* start(): a fresh session with no profiles, whose id is returned
SrvStart == Append(sessions, << >>)
SrvStartId == Len(sessions) + 1
\* add(session_id, profile): append; the profile is named by the run's input
SrvProfile(req) == IF req.ep = "/session/add/url" THEN req.url ELSE req.company_name
SrvAdd(req) ==
    [sessions EXCEPT ![req.session_id] = Append(@, SrvProfile(req))]
\* count(session_id)
SrvCount(sid) == Len(sessions[sid])

\* --------------------------------------------------------------------- tasks
\* the state the function fn reads through the closure of the current render
\* (a variable the function never reads is left at its initial value)
Closure(fn) ==
    [url |-> IF fn = "runUrl" THEN url ELSE "",
     company |-> IF fn = "runName" THEN company ELSE "",
     geo |-> IF fn = "runName" THEN geo ELSE "",
     mode |-> IF fn = "startBtn" THEN "realtime" ELSE mode,
     file |-> IF fn = "runBulk" THEN file ELSE None,
     addToSession |-> IF fn \in {"runUrl", "runName"} THEN addToSession ELSE FALSE,
     sessionId |-> IF fn = "runBulk" THEN NoSession ELSE sessionId]

\* ensureSession, up to its first await: the held id, or POST /session/start
EnsureSessionReturns(c) == c.sessionId # NoSession

\* the request that follows ensureSession in the function fn
AfterEnsure(fn, sid, c) ==
    CASE fn = "runUrl" -> ReqSessionAddUrl(sid, c)
      [] fn = "runName" -> ReqSessionAddName(sid, c)
      [] OTHER -> ReqSessionGet(sid)

\* variant of FirstRequest that takes the session branch whatever the checkbox
FirstRequestAlwaysSession(fn, c) ==
    CASE fn = "runBulk" -> ReqBulkUpload(c)
      [] version = "session" ->
            IF c.sessionId # NoSession THEN
                (IF fn = "runUrl" THEN ReqSessionAddUrl(c.sessionId, c)
                 ELSE ReqSessionAddName(c.sessionId, c))
            ELSE ReqSessionStart
      [] fn = "runUrl" -> ReqScrapeUrl(c)
      [] OTHER -> ReqScrapeName(c)

\* first request of a run: the builds differ only in the addToSession branch
FirstRequest(fn, c) ==
    CASE fn = "runBulk" -> ReqBulkUpload(c)
      [] version = "session" /\ c.addToSession ->
            IF EnsureSessionReturns(c) THEN AfterEnsure(fn, c.sessionId, c)
            ELSE ReqSessionStart
      [] fn = "runUrl" -> ReqScrapeUrl(c)
      [] OTHER -> ReqScrapeName(c)

\* onRun: dispatch on the method
OnRun == CASE method = "url" -> "runUrl" [] method = "name" -> "runName" [] OTHER -> "runBulk"

IsSessionReq(r) == r.ep \in SessionEps
IsAddReq(r) == r.ep \in AddEps
Count(b) == IF b THEN 1 ELSE 0

IsRunFn(fn) == fn \in {"runUrl", "runName", "runBulk"}

\* a task suspended at its first await, having sent the request r.  For a run
\* the task also records, for the properties only: the session checkbox and
\* the backend sessions at the click (addAtClick, snap), the session requests
\* and the add requests it has sent, and whether one of its own steps changed
\* sessionId or sessionCount.
NewTask(fn, r, c) ==
    [fn |-> fn, req |-> r, cl |-> c,
     sid |-> IF EnsureSessionReturns(c) THEN c.sessionId ELSE NoSession,
     addAtClick |-> IsRunFn(fn) /\ addToSession,
     snap |-> IF IsRunFn(fn) THEN sessions ELSE << >>,
     sent |-> Count(IsRunFn(fn) /\ IsSessionReq(r)),
     adds |-> Count(IsRunFn(fn) /\ IsAddReq(r)),
     chgSid |-> FALSE, chgCount |-> FALSE]

\* the task t suspended at its next await, having sent r after its own step
\* (nextId and nextCount are sessionId and sessionCount after that step)
NextTask(t, r, sid, nextId, nextCount) ==
    [t EXCEPT !.req = r, !.sid = sid,
              !.sent = @ + Count(IsRunFn(t.fn) /\ IsSessionReq(r)),
              !.adds = @ + Count(IsRunFn(t.fn) /\ IsAddReq(r)),
              !.chgSid = @ \/ (IsRunFn(t.fn) /\ nextId # sessionId),
              !.chgCount = @ \/ (IsRunFn(t.fn) /\ nextCount # sessionCount)]

\* the tasks are a bag: two clicks may leave two equal tasks in flight
InFlight == BagCardinality(tasks)
Spawn(t) == tasks (+) SetToBag({t})
Finish(t) == tasks (-) SetToBag({t})
Continue(t, u) == (tasks (-) SetToBag({t})) (+) SetToBag({u})

IsRun(t) == IsRunFn(t.fn)
Runs == {t \in BagToSet(tasks) : IsRun(t)}
\* runs in flight, counted with multiplicity
RunsInFlight == BagCardinality([t \in Runs |-> tasks[t]])

NoRun ==
    [outcome |-> "none", fn |-> "none", addToSession |-> FALSE, snap |-> << >>,
     sent |-> 0, adds |-> 0, chgSid |-> FALSE, chgCount |-> FALSE]

\* what is recorded of the run t when it ends in this step
Ended(t, outcome, nextId, nextCount) ==
    [outcome |-> outcome, fn |-> t.fn, addToSession |-> t.addAtClick,
     snap |-> t.snap, sent |-> t.sent, adds |-> t.adds,
     chgSid |-> t.chgSid \/ nextId # sessionId,
     chgCount |-> t.chgCount \/ nextCount # sessionCount]

\* {loading && <ProgressInline running={loading}/>}: the card is mounted with
\* fresh state when loading becomes true and unmounted when it becomes false
Render(nextLoading) ==
    IF loading /\ nextLoading THEN UNCHANGED progVars
    ELSE ticks' = 0 /\ p' = 0 /\ idx' = 0

\* ---------------------------------------------------------------------- Init
Init ==
    /\ version \in Versions
    /\ method = "url" /\ url = "" /\ company = "" /\ geo = ""
    /\ mode = "realtime" /\ file = None
    /\ loading = FALSE /\ data = None /\ job = None /\ bulkInfo = None /\ error = ""
    /\ sessionId = NoSession /\ addToSession = FALSE /\ sessionCount = 0
    /\ ticks = 0 /\ p = 0 /\ idx = 0
    /\ tasks = EmptyBag
    /\ sessions = << >>
    /\ ended = NoRun

\* ------------------------------------------------------------- form handlers
SetMethod(m) ==
    /\ method' = m
    /\ ended' = NoRun
    /\ UNCHANGED <<version, url, company, geo, mode, file, runVars, sessVars,
                   progVars, tasks, sessions>>

SetUrl(u) ==
    /\ method = "url"
    /\ url' = u
    /\ ended' = NoRun
    /\ UNCHANGED <<version, method, company, geo, mode, file, runVars, sessVars,
                   progVars, tasks, sessions>>

SetCompany(c) ==
    /\ method = "name"
    /\ company' = c
    /\ ended' = NoRun
    /\ UNCHANGED <<version, method, url, geo, mode, file, runVars, sessVars,
                   progVars, tasks, sessions>>

SetGeo(g) ==
    /\ method = "name"
    /\ geo' = g
    /\ ended' = NoRun
    /\ UNCHANGED <<version, method, url, company, mode, file, runVars, sessVars,
                   progVars, tasks, sessions>>

SetMode(m) ==
    /\ mode' = m
    /\ ended' = NoRun
    /\ UNCHANGED <<version, method, url, company, geo, file, runVars, sessVars,
                   progVars, tasks, sessions>>

SetFile(f) ==
    /\ method = "bulk"
    /\ file' = f
    /\ ended' = NoRun
    /\ UNCHANGED <<version, method, url, company, geo, mode, runVars, sessVars,
                   progVars, tasks, sessions>>

\* the session checkbox
SetAddToSession(b) ==
    /\ version = "session"
    /\ addToSession' = b
    /\ ended' = NoRun
    /\ UNCHANGED <<version, formVars, runVars, sessionId, sessionCount,
                   progVars, tasks, sessions>>

\* ------------------------------------------------------------------- clicks
\* the Start Session button: ensureSession, then refreshSession
ClickStartSession(cap) ==
    /\ StartSessionShown
    /\ InFlight < cap
    /\ LET c == Closure("startBtn")
           r == IF EnsureSessionReturns(c) THEN ReqSessionGet(c.sessionId)
                ELSE ReqSessionStart
       IN tasks' = Spawn(NewTask("startBtn", r, c))
    /\ ended' = NoRun
    /\ UNCHANGED <<version, formVars, runVars, sessVars, progVars, sessions>>

\* variant of ClickRun that leaves the outputs of the previous run in place
ClickRunKeepingOutputs(cap) ==
    /\ ~RunDisabled
    /\ InFlight < cap
    /\ LET fn == OnRun
           c == Closure(fn)
       IN /\ (fn = "runBulk" => c.file # None)
          /\ tasks' = Spawn(NewTask(fn, FirstRequest(fn, c), c))
    /\ loading' = TRUE /\ error' = ""
    /\ Render(TRUE)
    /\ ended' = NoRun
    /\ UNCHANGED <<version, formVars, data, job, bulkInfo, sessVars, sessions>>

\* the Run button: onRun, then the run up to its first await
ClickRun(cap) ==
    /\ ~RunDisabled
    /\ InFlight < cap
    /\ LET fn == OnRun
           c == Closure(fn)
       IN /\ (fn = "runBulk" => c.file # None)
          /\ tasks' = Spawn(NewTask(fn, FirstRequest(fn, c), c))
    /\ loading' = TRUE /\ error' = "" /\ data' = None /\ job' = None
    /\ bulkInfo' = None
    /\ Render(TRUE)
    /\ ended' = NoRun
    /\ UNCHANGED <<version, formVars, sessVars, sessions>>

\* ------------------------------------------------------ promise continuations
\* variant of ResolveScrape that shows the profile without setting the job
ResolveScrapeWithoutJob(t, res) ==
    /\ t \in BagToSet(tasks)
    /\ t.req.ep \in {"/scrape/url", "/scrape/name"}
    /\ data' = Some(res.data)
    /\ loading' = FALSE
    /\ Render(FALSE)
    /\ tasks' = Finish(t)
    /\ ended' = Ended(t, "ok", sessionId, sessionCount)
    /\ UNCHANGED <<version, formVars, job, bulkInfo, error, sessVars, sessions>>

\* POST /scrape/url or /scrape/name answered: setData, setJob, finally
ResolveScrape(t, res) ==
    /\ t \in BagToSet(tasks)
    /\ t.req.ep \in {"/scrape/url", "/scrape/name"}
    /\ data' = Some(res.data)
    /\ job' = Some(res)
    /\ loading' = FALSE
    /\ Render(FALSE)
    /\ tasks' = Finish(t)
    /\ ended' = Ended(t, "ok", sessionId, sessionCount)
    /\ UNCHANGED <<version, formVars, bulkInfo, error, sessVars, sessions>>

\* POST /bulk/upload answered: setBulkInfo, setJob, finally
ResolveBulk(t, res) ==
    /\ t \in BagToSet(tasks)
    /\ t.req.ep = "/bulk/upload"
    /\ bulkInfo' = Some(res)
    /\ job' = Some([job_id |-> res.job_id])
    /\ loading' = FALSE
    /\ Render(FALSE)
    /\ tasks' = Finish(t)
    /\ ended' = Ended(t, "ok", sessionId, sessionCount)
    /\ UNCHANGED <<version, formVars, data, error, sessVars, sessions>>

\* POST /session/start answered: setSessionId, return the id to the caller,
\* which sends its next request
ResolveSessionStart(t) ==
    /\ t \in BagToSet(tasks)
    /\ t.req.ep = "/session/start"
    /\ sessions' = SrvStart
    /\ sessionId' = SrvStartId
    /\ tasks' = Continue(t, NextTask(t, AfterEnsure(t.fn, SrvStartId, t.cl),
                                      SrvStartId, SrvStartId, sessionCount))
    /\ ended' = NoRun
    /\ UNCHANGED <<version, formVars, runVars, addToSession, sessionCount,
                   progVars>>

\* POST /session/add/url or /session/add/name answered: refreshSession(sid)
ResolveSessionAdd(t) ==
    /\ t \in BagToSet(tasks)
    /\ IsAddReq(t.req)
    /\ TotalProfiles < MaxProfiles
    /\ sessions' = SrvAdd(t.req)
    /\ tasks' = Continue(t, NextTask(t, ReqSessionGet(t.sid), t.sid,
                                      sessionId, sessionCount))
    /\ ended' = NoRun
    /\ UNCHANGED <<version, formVars, runVars, sessVars, progVars>>

\* GET /session/{sid} answered: setSessionCount; a run then reaches finally
ResolveSessionGet(t) ==
    /\ t \in BagToSet(tasks)
    /\ t.req.ep = "/session/{id}"
    /\ sessionCount' = CountOrZero(SrvCount(t.req.session_id))
    /\ tasks' = Finish(t)
    /\ IF IsRun(t)
       THEN /\ loading' = FALSE
            /\ Render(FALSE)
            /\ ended' = Ended(t, "ok", sessionId,
                               CountOrZero(SrvCount(t.req.session_id)))
       ELSE /\ ended' = NoRun
            /\ UNCHANGED <<loading, progVars>>
    /\ UNCHANGED <<version, formVars, data, job, bulkInfo, error, sessionId,
                   addToSession, sessions>>

\* variant of RejectRun whose catch is not followed by a finally
RejectRunWithoutFinally(t, detail, message) ==
    /\ t \in BagToSet(tasks)
    /\ IsRun(t)
    /\ error' = ErrorMsg(detail, message)
    /\ tasks' = Finish(t)
    /\ ended' = Ended(t, "failed", sessionId, sessionCount)
    /\ UNCHANGED <<version, formVars, loading, data, job, bulkInfo, sessVars,
                   progVars, sessions>>

\* a request of a run rejected: catch sets the error, finally ends the run
RejectRun(t, detail, message) ==
    /\ t \in BagToSet(tasks)
    /\ IsRun(t)
    /\ error' = ErrorMsg(detail, message)
    /\ loading' = FALSE
    /\ Render(FALSE)
    /\ tasks' = Finish(t)
    /\ ended' = Ended(t, "failed", sessionId, sessionCount)
    /\ UNCHANGED <<version, formVars, data, job, bulkInfo, sessVars, sessions>>

\* a request of the Start Session handler rejected: nothing catches it
RejectStartSession(t) ==
    /\ t \in BagToSet(tasks)
    /\ ~IsRun(t)
    /\ tasks' = Finish(t)
    /\ ended' = NoRun
    /\ UNCHANGED <<version, formVars, runVars, sessVars, progVars, sessions>>

\* the interval callback of ProgressInline, every 250 ms while mounted
Tick(cap) ==
    /\ loading
    /\ ticks < cap
    /\ ticks' = ticks + 1
    /\ p' = PercentAt(ticks')
    /\ idx' = StepAt(ticks')
    /\ ended' = NoRun
    /\ UNCHANGED <<version, formVars, runVars, sessVars, tasks, sessions>>

\* ------------------------------------------------ the plain build (App.js)
\* App.js translated on its own, as a next-state relation over the state the
\* two builds have in common: the form, the run state and the requests in
\* flight.  An async function of App.js suspended at its await holds nothing
\* but the request it has sent.
PlainTask(t) == [fn |-> t.fn, req |-> t.req]
PlainTasks ==
    [x \in {PlainTask(t) : t \in DOMAIN tasks} |->
        BagCardinality([t \in {u \in DOMAIN tasks : PlainTask(u) = x} |-> tasks[t]])]
plainVars == <<formVars, runVars, PlainTasks>>

PlainInit ==
    /\ method = "url" /\ url = "" /\ company = "" /\ geo = ""
    /\ mode = "realtime" /\ file = None
    /\ loading = FALSE /\ data = None /\ job = None /\ bulkInfo = None /\ error = ""
    /\ PlainTasks = EmptyBag

\* a form handler of App.js: one form variable set, nothing else touched
PlainFormHandler ==
    /\ \/ \E m \in Methods : method' = m /\ UNCHANGED <<url, company, geo, mode, file>>
       \/ method = "url" /\ UNCHANGED <<method, company, geo, mode, file>>
       \/ method = "name" /\ UNCHANGED <<method, url, geo, mode, file>>
       \/ method = "name" /\ UNCHANGED <<method, url, company, mode, file>>
       \/ UNCHANGED <<method, url, company, geo, file>>
       \/ method = "bulk" /\ UNCHANGED <<method, url, company, geo, mode>>
    /\ UNCHANGED <<runVars, PlainTasks>>

\* disabled attribute of the Run button of App.js
PlainRunDisabled ==
    \/ loading
    \/ method = "url" /\ Falsy(url)
    \/ method = "name" /\ Falsy(company)
    \/ method = "bulk" /\ file = None

\* onRun of App.js and the one request of the function it calls
PlainOnRun ==
    CASE method = "url" ->
            [fn |-> "runUrl",
             req |-> [ep |-> "/scrape/url", url |-> url, mode |-> mode]]
      [] method = "name" ->
            [fn |-> "runName",
             req |-> [ep |-> "/scrape/name", company_name |-> company,
                      geography |-> geo, mode |-> mode]]
      [] OTHER ->
            [fn |-> "runBulk",
             req |-> [ep |-> "/bulk/upload", file |-> file, mode |-> mode]]

PlainClickRun ==
    /\ ~PlainRunDisabled
    /\ PlainOnRun.fn = "runBulk" => file # None
    /\ PlainTasks' = PlainTasks (+) SetToBag({PlainOnRun})
    /\ loading' = TRUE /\ error' = "" /\ data' = None /\ job' = None
    /\ bulkInfo' = None
    /\ UNCHANGED formVars

PlainResolveScrape(t, res) ==
    /\ t.fn \in {"runUrl", "runName"}
    /\ data' = Some(res.data)
    /\ job' = Some(res)
    /\ loading' = FALSE
    /\ PlainTasks' = PlainTasks (-) SetToBag({t})
    /\ UNCHANGED <<formVars, bulkInfo, error>>

PlainResolveBulk(t, res) ==
    /\ t.fn = "runBulk"
    /\ bulkInfo' = Some(res)
    /\ job' = Some([job_id |-> res.job_id])
    /\ loading' = FALSE
    /\ PlainTasks' = PlainTasks (-) SetToBag({t})
    /\ UNCHANGED <<formVars, data, error>>

PlainReject(t, detail, message) ==
    /\ error' = (IF Falsy(detail) THEN message ELSE detail)
    /\ loading' = FALSE
    /\ PlainTasks' = PlainTasks (-) SetToBag({t})
    /\ UNCHANGED <<formVars, data, job, bulkInfo>>

PlainNext ==
    \/ PlainFormHandler
    \/ PlainClickRun
    \/ \E t \in DOMAIN PlainTasks, res \in ScrapeResponses : PlainResolveScrape(t, res)
    \/ \E t \in DOMAIN PlainTasks, res \in BulkResponses : PlainResolveBulk(t, res)
    \/ \E t \in DOMAIN PlainTasks, d \in ErrDetails, m \in ErrMessages :
            PlainReject(t, d, m)

PlainSpec == PlainInit /\ [][PlainNext]_plainVars

\* ------------------------------------------------------------ specifications
\* The form, the session checkbox and the runs, from the state after
\* construction.  The Run button admits one run at a time, so MaxTasks never
\* binds here; the Start Session button is left to SpecSession.
Next ==
    \/ \E m \in Methods : SetMethod(m)
    \/ \E u \in Urls : SetUrl(u)
    \/ \E c \in Companies : SetCompany(c)
    \/ \E g \in Geos : SetGeo(g)
    \/ \E m \in Modes : SetMode(m)
    \/ \E f \in Files : SetFile(f)
    \/ \E b \in BOOLEAN : SetAddToSession(b)
    \/ ClickRun(MaxTasks)
    \/ \E t \in BagToSet(tasks), res \in ScrapeResponses : ResolveScrape(t, res)
    \/ \E t \in BagToSet(tasks), res \in BulkResponses : ResolveBulk(t, res)
    \/ \E t \in BagToSet(tasks) : ResolveSessionStart(t)
    \/ \E t \in BagToSet(tasks) : ResolveSessionAdd(t)
    \/ \E t \in BagToSet(tasks) : ResolveSessionGet(t)
    \/ \E t \in BagToSet(tasks), d \in ErrDetails, m \in ErrMessages : RejectRun(t, d, m)
    \/ Tick(MaxTicks)

Spec == Init /\ [][Next]_vars

\* The form as the user has filled it in (a state Spec reaches by SetUrl,
\* SetCompany and SetFile) and from then on left alone.
InitFilled ==
    /\ version \in Versions
    /\ method = "url"
    /\ url = "https://acme.test" /\ company = "Acme" /\ geo = ""
    /\ mode = "realtime" /\ file = Some("rows.csv")
    /\ loading = FALSE /\ data = None /\ job = None /\ bulkInfo = None /\ error = ""
    /\ sessionId = NoSession /\ addToSession = FALSE /\ sessionCount = 0
    /\ ticks = 0 /\ p = 0 /\ idx = 0
    /\ tasks = EmptyBag
    /\ sessions = << >>
    /\ ended = NoRun

\* Runs, Start Session clicks and their answers in every interleaving.
NextSession ==
    \/ \E m \in Methods : SetMethod(m)
    \/ \E b \in BOOLEAN : SetAddToSession(b)
    \/ ClickStartSession(MaxTasks)
    \/ ClickRun(MaxTasks)
    \/ \E t \in BagToSet(tasks), res \in ScrapeResponses : ResolveScrape(t, res)
    \/ \E t \in BagToSet(tasks), res \in BulkResponses : ResolveBulk(t, res)
    \/ \E t \in BagToSet(tasks) : ResolveSessionStart(t)
    \/ \E t \in BagToSet(tasks) : ResolveSessionAdd(t)
    \/ \E t \in BagToSet(tasks) : ResolveSessionGet(t)
    \/ \E t \in BagToSet(tasks), d \in ErrDetails, m \in ErrMessages : RejectRun(t, d, m)
    \/ \E t \in BagToSet(tasks) : RejectStartSession(t)
    \/ Tick(MaxTicks)

SpecSession == InitFilled /\ [][NextSession]_vars

\* The progress card over its whole range, for every kind of run: the method
\* and the session checkbox are chosen before the first step.
InitProgress ==
    /\ version \in Versions
    /\ method \in Methods
    /\ url = "https://acme.test" /\ company = "Acme" /\ geo = ""
    /\ mode = "realtime" /\ file = Some("rows.csv")
    /\ loading = FALSE /\ data = None /\ job = None /\ bulkInfo = None /\ error = ""
    /\ sessionId = NoSession /\ sessionCount = 0
    /\ addToSession \in (IF version = "session" THEN BOOLEAN ELSE {FALSE})
    /\ ticks = 0 /\ p = 0 /\ idx = 0
    /\ tasks = EmptyBag
    /\ sessions = << >>
    /\ ended = NoRun

NextProgress ==
    \/ ClickStartSession(MaxTasks)
    \/ ClickRun(MaxTasks)
    \/ \E t \in BagToSet(tasks), res \in ScrapeResponses : ResolveScrape(t, res)
    \/ \E t \in BagToSet(tasks), res \in BulkResponses : ResolveBulk(t, res)
    \/ \E t \in BagToSet(tasks) : ResolveSessionStart(t)
    \/ \E t \in BagToSet(tasks) : ResolveSessionAdd(t)
    \/ \E t \in BagToSet(tasks) : ResolveSessionGet(t)
    \/ \E t \in BagToSet(tasks), d \in ErrDetails, m \in ErrMessages : RejectRun(t, d, m)
    \/ \E t \in BagToSet(tasks) : RejectStartSession(t)
    \/ Tick(LongTicks)

SpecProgress == InitProgress /\ [][NextProgress]_vars

\* The request a run waits for is answered or rejected: axios settles every
\* promise it returns (with the response, or with a network error or timeout).
AnswerRun ==
    \E t \in Runs :
        \/ \E res \in ScrapeResponses : ResolveScrape(t, res)
        \/ \E res \in BulkResponses : ResolveBulk(t, res)
        \/ ResolveSessionStart(t)
        \/ ResolveSessionAdd(t)
        \/ ResolveSessionGet(t)
        \/ \E d \in ErrDetails, m \in ErrMessages : RejectRun(t, d, m)

\* Every kind of run beside Start Session clicks, under the assumption that
\* the request of the run in flight is eventually settled; the requests of
\* Start Session clicks, and the user, are under no obligation.
NextFair ==
    \/ ClickStartSession(MaxTasks)
    \/ ClickRun(MaxTasks)
    \/ \E t \in BagToSet(tasks), res \in ScrapeResponses : ResolveScrape(t, res)
    \/ \E t \in BagToSet(tasks), res \in BulkResponses : ResolveBulk(t, res)
    \/ \E t \in BagToSet(tasks) : ResolveSessionStart(t)
    \/ \E t \in BagToSet(tasks) : ResolveSessionAdd(t)
    \/ \E t \in BagToSet(tasks) : ResolveSessionGet(t)
    \/ \E t \in BagToSet(tasks), d \in ErrDetails, m \in ErrMessages : RejectRun(t, d, m)
    \/ \E t \in BagToSet(tasks) : RejectStartSession(t)
    \/ Tick(MaxTicks)

SpecFair == InitProgress /\ [][NextFair]_vars /\ WF_vars(AnswerRun)

\* The session build with its session features left alone: the checkbox is
\* never checked, so the Start Session button is never rendered and no
\* session request is ever sent.
InitSessionBuild == Init /\ version = "session"

NextNoSession ==
    \/ \E m \in Methods : SetMethod(m)
    \/ \E u \in Urls : SetUrl(u)
    \/ \E c \in Companies : SetCompany(c)
    \/ \E g \in Geos : SetGeo(g)
    \/ \E m \in Modes : SetMode(m)
    \/ \E f \in Files : SetFile(f)
    \/ ClickRun(MaxTasks)
    \/ \E t \in BagToSet(tasks), res \in ScrapeResponses : ResolveScrape(t, res)
    \/ \E t \in BagToSet(tasks), res \in BulkResponses : ResolveBulk(t, res)
    \/ \E t \in BagToSet(tasks), d \in ErrDetails, m \in ErrMessages : RejectRun(t, d, m)
    \/ Tick(MaxTicks)

SpecNoSession == InitSessionBuild /\ [][NextNoSession]_vars

\* -------------------------------------------------------------------- claims
RunEnded == ended.outcome # "none"
RunFailed == ended.outcome = "failed"
RunSucceeded == ended.outcome = "ok"
AddsInFlight == BagCardinality([t \in {x \in BagToSet(tasks) : IsAddReq(x.req)} |-> tasks[t]])

\* C1: a run that ended on a rejected request leaves a non-empty error and no
\* profile and no job (no table, no download link); a profile and an error
\* are never displayed together.
C1_FailedRunShowsErrorOnly ==
    /\ RunFailed => (~Falsy(error) /\ data = None /\ job = None)
    /\ ~(data # None /\ ~(error = ""))

\* a session-mode run that failed after it had sent session requests
C1_Witness == RunFailed /\ ended.sent > 1 /\ ~Falsy(error) /\ data = None

\* C2: every successful run clicked while the session checkbox was checked
\* has sent a session add request, and the backend sessions hold more
\* profiles than at the click.
C2_EveryRunIsAdded ==
    (RunSucceeded /\ ended.addToSession) =>
        (ended.adds > 0 /\ TotalProfiles > SumLen(ended.snap))

\* C3: once sessionId is non-empty it never changes.
C3_SessionIdNeverChanges ==
    [][sessionId # NoSession => sessionId' = sessionId]_vars

\* C4: at most one run is in flight, loading is true exactly while a run is
\* in flight, and at most one session add request is in flight.
C4_OneRunAtATime ==
    /\ RunsInFlight <= 1
    /\ loading <=> RunsInFlight = 1
    /\ AddsInFlight <= 1

\* a session add request of a run in flight beside a Start Session task
C4_Witness == loading /\ AddsInFlight = 1 /\ InFlight = 2

\* C5: while no run is in flight and a session id is held, sessionCount is
\* the number of profiles the backend holds for that session.
C5_CountIsServerCount ==
    (RunsInFlight = 0 /\ sessionId # NoSession) =>
        sessionCount = Len(sessions[sessionId])

\* C6: the result table has exactly the fifteen fields in their fixed order
\* for every non-null data object, whatever keys it has; a missing or null
\* field keeps its row, shown with the placeholder; for data = null there are
\* no rows.
C6_Fields ==
    << "Company Name", "Website", "Industry", "Description", "Services",
       "Address", "Country", "State", "City", "Postal Code", "Phone", "Email",
       "Social Media Links", "Founders/Key People", "Verification Status" >>

C6_FixedFieldTable ==
    /\ data = None => (Pairs(data) = << >> /\ TableRows(data) = << >>)
    /\ data # None =>
        /\ Len(Pairs(data)) = 15
        /\ Len(TableRows(data)) = 15
        /\ \A i \in 1..15 :
            LET obj == data[1]
                k == C6_Fields[i]
                absent == k \notin DOMAIN obj
            IN /\ Pairs(data)[i].k = k
               /\ Pairs(data)[i].v = (IF absent THEN JsUndefined ELSE obj[k])
               /\ TableRows(data)[i][1] = k
               /\ TableRows(data)[i][2] =
                    (IF absent \/ obj[k] = JsNull THEN Placeholder ELSE obj[k])

\* a profile with a null field, fourteen missing fields and a key the table
\* does not know
C6_Witness ==
    /\ data # None
    /\ DOMAIN data[1] = {"Company Name", "Revenue"}
    /\ data[1]["Company Name"] = JsNull

\* C7: the progress display is a function of the interval ticks of the run
\* alone, whatever was sent or answered; only a tick or the start or end of a
\* run changes it.
C7_PercentOf(t) == IF t >= 60 THEN 100 ELSE (100 * t) \div 60
C7_StepOf(t) == IF t >= 60 THEN 3 ELSE t \div 15

C7_ProgressFromTicksOnly ==
    /\ [](p = C7_PercentOf(ticks) /\ idx = C7_StepOf(ticks))
    /\ [][(<<p, idx, ticks>>' # <<p, idx, ticks>>) =>
            \/ ticks' = ticks + 1 /\ UNCHANGED <<tasks, sessions, runVars, sessVars>>
            \/ loading' # loading /\ ticks' = 0]_vars

\* the last step shown while a session-mode run waits for its third answer
C7_Witness ==
    /\ loading /\ ticks = 45 /\ p = 75 /\ idx = 3
    /\ \E t \in Runs : t.req.ep = "/session/{id}"

C9_RequestsCarryInput ==
    \A t \in DOMAIN tasks :
        /\ t.req.ep \in {"/scrape/url", "/session/add/url"} => ~Falsy(t.req.url)
        /\ t.req.ep \in {"/scrape/name", "/session/add/name"} =>
                ~Falsy(t.req.company_name)
        /\ t.req.ep = "/bulk/upload" => t.req.file # None

\* a session add by name with an empty geography, sent after the user has
\* emptied the company field again
C9_Witness ==
    \E t \in DOMAIN tasks :
        /\ t.req.ep = "/session/add/name"
        /\ t.req.geography = ""
        /\ company = ""

\* C10: after a session-mode runUrl or runName that ended with an error, the
\* backend sessions hold what they held at the click (a session created since
\* holds nothing).
C10_ErrorMeansNothingAdded ==
    (RunFailed /\ ended.addToSession /\ ended.fn \in {"runUrl", "runName"}) =>
        \A i \in 1..Len(sessions) :
            sessions[i] = (IF i <= Len(ended.snap) THEN ended.snap[i] ELSE << >>)

\* C11: while a run is in flight data, job and bulkInfo are null and error is
\* empty; data and bulkInfo are never both non-null; a non-null job is the
\* answer that also set the data shown, or carries the job_id of the bulk
\* report shown; a run that has just ended shows its own outputs only.
C11_OutputsOfLastRun ==
    /\ loading => (data = None /\ job = None /\ bulkInfo = None /\ error = "")
    /\ ~(data # None /\ bulkInfo # None)
    /\ job # None =>
        \/ data # None /\ job[1] \in ScrapeResponses /\ job[1].data = data[1]
        \/ bulkInfo # None /\ job[1] = [job_id |-> bulkInfo[1].job_id]
    /\ (data # None \/ bulkInfo # None) => (job # None /\ error = "")
    /\ RunFailed => (data = None /\ job = None /\ bulkInfo = None)
    /\ (RunSucceeded /\ ended.fn = "runBulk") => (bulkInfo # None /\ data = None)
    /\ (RunSucceeded /\ ended.fn # "runBulk") =>
            (bulkInfo = None /\ (data # None <=> ended.sent = 0))

\* a url run in flight with nothing displayed, a file still being selected
C11_Witness ==
    /\ loading /\ data = None /\ bulkInfo = None /\ job = None /\ error = ""
    /\ \E t \in Runs : t.fn = "runUrl"
    /\ file # None

\* C12: after t ticks of a run p = min(100, floor(100*t/60)) and
\* idx = min(3, floor(t/15)); p is within 0..100 and idx is an index of steps;
\* p is 100 exactly from tick 60 on; the label is 'Exporting Excel' exactly
\* when p >= 75; during a run p and idx never decrease; a new run starts from
\* p = 0 and idx = 0; a tick is delivered only during a run.
C12_Label == steps[version][idx + 1]

C12_ProgressClosedForm ==
    /\ [](/\ p = Min(100, (100 * ticks) \div 60)
          /\ idx = Min(3, ticks \div 15)
          /\ p \in 0..100
          /\ idx \in 0..3 /\ idx + 1 \in DOMAIN steps[version]
          /\ (p = 100 <=> ticks >= 60)
          /\ (C12_Label = "Exporting Excel" <=> p >= 75)
          /\ (~loading => (ticks = 0 /\ p = 0 /\ idx = 0)))
    /\ [][/\ (loading /\ loading') => (p' >= p /\ idx' >= idx /\ ticks' >= ticks)
          /\ (~loading /\ loading') => (ticks' = 0 /\ p' = 0 /\ idx' = 0)
          /\ ticks' # ticks => (loading /\ (loading' <=> ticks' = ticks + 1))]_vars

\* the bar full for the second tick in a row while the run still waits
C12_Witness ==
    /\ loading /\ ticks = 61 /\ p = 100 /\ idx = 3
    /\ C12_Label = "Exporting Excel"

\* C13: every started run eventually reaches loading = false, and with the
\* form filled in the Run button is enabled again; a run that has ended is no
\* longer in flight, whichever request ended it.
C13_EveryRunFinishes ==
    /\ loading ~> (~loading /\ ~RunDisabled /\ RunsInFlight = 0)
    /\ [](RunEnded => (~loading /\ ~RunDisabled /\ RunsInFlight = 0))

\* a session-mode run ended by the rejection of its third request, the
\* status refresh, with the Run button enabled again
C13_Witness ==
    /\ RunFailed /\ ended.addToSession /\ ended.sent = 3
    /\ ~loading /\ ~RunDisabled

\* C14: with add-to-session never enabled and Start Session never clicked,
\* every behaviour of the session build is, on the form, the run state
\* (loading, data, job, bulkInfo, error) and the requests in flight, a
\* behaviour of App.js: each step is a step of App.js or changes none of
\* these; the Run button is disabled in the one exactly when it is in the
\* other; no session is created.
C14_RefinesPlain ==
    /\ PlainSpec
    /\ [](/\ RunDisabled <=> PlainRunDisabled
          /\ sessions = << >> /\ sessionId = NoSession /\ sessionCount = 0
          /\ \A t \in DOMAIN PlainTasks : ~IsSessionReq(t.req))

\* the session build showing the profile of a run by name, with its job
C14_Witness ==
    /\ version = "session" /\ ~addToSession
    /\ RunSucceeded /\ ended.fn = "runName"
    /\ data # None /\ job # None /\ job[1].data = data[1]

====
